---------------------------- MODULE Spec2Model ----------------------------
(***************************************************************************)
(* A model of customqt.windows.WindowsStyler: the native-message           *)
(* dispatcher (nativeEvent), the hit-test, the min/max computation and the *)
(* debounced corner application, together with the parts of the operating  *)
(* system and of the toolkit they talk to (the zoomed state of the window, *)
(* the active cursor, the clock, the single-shot timers of the event loop).*)
(***************************************************************************)
EXTENDS Integers, Sequences, FiniteSets

(***************************************************************************)
(* Message numbers, hit-test codes, show-window commands, cursor ids and   *)
(* style bits of customqt/constants.py (hexadecimal there, decimal here).  *)
(***************************************************************************)
WM_NCMOUSEMOVE == 160
WM_NCHITTEST == 132
WM_NCCALCSIZE == 131
WM_NCPAINT == 133
WM_NCACTIVATE == 134
WM_GETMINMAXINFO == 36
WM_SIZE == 5
WM_WINDOWPOSCHANGED == 71
WM_EXITSIZEMOVE == 562
WM_DPICHANGED == 736
WM_NCLBUTTONDOWN == 161
WM_NCLBUTTONUP == 162
WM_NCLBUTTONDBLCLK == 163
WM_SETCURSOR == 32

HTCLIENT == 1
HTCAPTION == 2
HTMAXBUTTON == 9
HTLEFT == 10
HTRIGHT == 11
HTTOP == 12
HTTOPLEFT == 13
HTTOPRIGHT == 14
HTBOTTOM == 15
HTBOTTOMLEFT == 16
HTBOTTOMRIGHT == 17

SW_MAXIMIZE == 3
SW_RESTORE == 9

IDC_ARROW == 32512
IDC_HAND == 32649
IDC_SIZEWE == 32644

WS_CAPTION == 12582912
WS_THICKFRAME == 262144

DWMNCRP_DISABLED == 2
DWMWCP_DEFAULT == 0
DWMWCP_DONOTROUND == 1
DWMWCP_ROUND == 2

(***************************************************************************)
(* The constructor's defaults (WindowsStyler.__init__), the numbers        *)
(* written in the methods, and the size the test window is given.          *)
(***************************************************************************)
BORDER_WIDTH == 8
TITLE_BAR_FALLBACK_HEIGHT == 30
ROUND_CORNER_RADIUS == 15
DebounceMs == 50
MinTrackWidthFloor == 200
MinTrackHeightFloor == 100
WinW == 400
WinH == 300

(***************************************************************************)
(* Bounds of the model.                                                    *)
(***************************************************************************)
\* the clock reading (ms) when the controller is constructed
StartTime == 100
\* the clock stops advancing MaxElapsed ms after StartTime
MaxElapsed == 60
\* one step of the clock, in ms
TickStep == 20
\* single-shot callbacks the event loop holds at once
MaxPending == 3
\* pointer coordinates are sampled this far beyond each resize band
Margin == 2

Max(a, b) == IF a >= b THEN a ELSE b

\* Python's None: where the other values are integers, and where they are strings
NoneV == 0 - 1
NoneS == "None"

VARIABLES
    is_windows_11,     \* self._is_windows_11: the build is 22000 or later
    titlebar_hook,     \* self._titlebar_hook: what the hook does when it is called
    env,               \* what the handlers read from the system and the host window:
                       \* the pointer (x, y) in window coordinates, the window's
                       \* width w, height h and device pixel ratio dpr, the monitor
                       \* mon under the window and the window's minimum size
    hwnd,              \* self.hwnd: NoneV, 0 (invalid) or the native handle
    installed,         \* nativeEvent and the show/isMaximized patches are set on the window
    style,             \* the window's GWL_STYLE bits
    ncPolicy,          \* DWMWA_NCRENDERING_POLICY of the window (NoneV: untouched)
    blur,              \* blur-behind enabled for the whole window
    zoomed,            \* what IsZoomed(hwnd) answers
    osCursor,          \* the active cursor handle (0: none)
    original_cursor,   \* self._original_cursor: NoneV or a handle
    corner_timer,      \* self._corner_timer: NoneS or a QTimer that was never started
    pending,           \* deadlines of the single-shot callbacks the event loop holds
    last_corner_apply, \* self._last_corner_apply, in ms
    now,               \* time.time(), in ms
    cornerPref,        \* DWMWA_WINDOW_CORNER_PREFERENCE of the window
    windowRgn,         \* the window's clip region: WholeWindow or <<width, height, radius>>
    region,            \* the region handle of the latest application: whether one
                       \* was created, whether SetWindowRgn took it over, whether
                       \* the controller deleted it
    burst,             \* history: the triggers since the last application, and the
                       \* applications since the last trigger
    ret,               \* what the last operation returned (or that it raised)
    last,              \* history: the last operation, its inputs and what it did
    prev               \* history: whether the operation before it toggled the
                       \* maximized state, and from which state

vars == <<is_windows_11, titlebar_hook, env, hwnd, installed, style, ncPolicy, blur, zoomed, osCursor, original_cursor,
          corner_timer, pending, last_corner_apply, now, cornerPref, windowRgn, region,
          burst, ret, last, prev>>

\* the native handle winId() gives once the window exists
ValidHwnd == 4660

\* a handler's answer, or the exception that left it
Returned(handled, result) == [handled |-> handled, result |-> result, raised |-> NoneS]
Raised(exc) == [handled |-> FALSE, result |-> 0, raised |-> exc]
NoRet == [handled |-> FALSE, result |-> -1, raised |-> NoneS]

\* the handler installed before answers (False, 0)
OrigDeclines == Returned(FALSE, 0)

Truthy(v) == v # NoneV /\ v # 0

\* no clip region: SetWindowRgn(hwnd, 0, True), and the state of a new window
WholeWindow == <<>>

\* no region handle was created
NoRegion == [created |-> FALSE, transferred |-> FALSE, deleted |-> FALSE]

NoBurst == [n |-> 0, start |-> 0, end |-> 0, apps |-> 0]

\* a trigger joins the burst in progress unless an application has happened since
BurstAfterTrigger(b, t) ==
    IF b.n = 0 \/ b.apps > 0
    THEN [n |-> 1, start |-> t, end |-> t, apps |-> 0]
    ELSE [b EXCEPT !.n = b.n + 1, !.end = t]

(***************************************************************************)
(* The history of an operation: a message nativeEvent was given (msg, its  *)
(* hit-test parameter ht, the fault met, the maximized state before it,    *)
(* the corner triggers, show-window directive and calls of the previous    *)
(* handler it made, its other inputs arg, and out: the record it filled or *)
(* what the previous handler answered), or a call of another method.       *)
(***************************************************************************)
\* no further input, no output: a record, as the inputs and outputs are
NoArg == [absent |-> TRUE]

Msg(m, ht, f, zb, trig, show, orig, arg, out) ==
    [op |-> "nativeEvent", msg |-> m, ht |-> ht, fault |-> f, zBefore |-> zb,
     triggers |-> trig, show |-> show, orig |-> orig, arg |-> arg, out |-> out]

Op(name, zb, trig) ==
    [op |-> name, msg |-> 0, ht |-> 0, fault |-> [site |-> NoneS, exc |-> NoneS],
     zBefore |-> zb, triggers |-> trig, show |-> 0, orig |-> 0,
     arg |-> NoArg, out |-> NoArg]

\* the operation toggled the maximized state through the maximize button
IsToggle(l) ==
    /\ l.op = "nativeEvent"
    /\ l.msg \in {WM_NCLBUTTONUP, WM_NCLBUTTONDBLCLK}
    /\ l.ht = HTMAXBUTTON
    /\ l.fault.site \notin {"IsZoomed", "ShowWindow"}

\* the operation was a cursor-set message over the maximize button
IsCursorSave(l) == l.op = "nativeEvent" /\ l.msg = WM_SETCURSOR /\ l.ht = HTMAXBUTTON

\* the operation was a non-client button-down message, over the maximize button
\* or elsewhere
IsMaxButtonDown(l) ==
    l.op = "nativeEvent" /\ l.msg = WM_NCLBUTTONDOWN /\ l.ht = HTMAXBUTTON

IsDownElsewhere(l) ==
    l.op = "nativeEvent" /\ l.msg = WM_NCLBUTTONDOWN /\ l.ht # HTMAXBUTTON

\* what is kept of the operation before the last: for a toggle the maximized
\* state before it, for a cursor-set message over the maximize button the active
\* and the saved cursor before it, for a button-down where it was
NoToggle == [kind |-> "other", zBefore |-> FALSE, active |-> NoneV, saved |-> NoneV]

Summary(l) ==
    IF IsToggle(l)
    THEN [kind |-> "toggle", zBefore |-> l.zBefore, active |-> NoneV, saved |-> NoneV]
    ELSE IF IsCursorSave(l)
    THEN [kind |-> "save", zBefore |-> FALSE, active |-> l.arg.active,
          saved |-> l.arg.saved]
    ELSE IF IsMaxButtonDown(l)
    THEN [NoToggle EXCEPT !.kind = "down-on-button"]
    ELSE IF IsDownElsewhere(l)
    THEN [NoToggle EXCEPT !.kind = "down-elsewhere"]
    ELSE NoToggle

\* the controller as constructed: on a build that is Windows 11 or not, with a
\* title-bar hook or none, with some cursor active, and with the pointer, the
\* window's metrics and the monitor as they are
InitStyled(win11s, hooks, cursors, envs, styles) ==
    /\ is_windows_11 \in win11s
    /\ titlebar_hook \in hooks
    /\ env \in envs
    /\ hwnd = NoneV
    /\ installed = FALSE
    /\ style \in styles
    /\ ncPolicy = NoneV
    /\ blur = FALSE
    /\ zoomed = FALSE
    /\ osCursor \in cursors
    /\ original_cursor = NoneV
    /\ corner_timer = NoneS
    /\ pending = <<>>
    /\ last_corner_apply = 0
    /\ now = StartTime
    /\ cornerPref = DWMWCP_DEFAULT
    /\ windowRgn = WholeWindow
    /\ region = NoRegion
    /\ burst = NoBurst
    /\ ret = NoRet
    /\ last = Op("__init__", FALSE, 0)
    /\ prev = NoToggle

\* the same with the style of a captioned window
InitWith(win11s, hooks, cursors, envs) ==
    InitStyled(win11s, hooks, cursors, envs, {WS_CAPTION})

(***************************************************************************)
(* _debounced_apply_corners.  QTimer.singleShot is a static function of    *)
(* QTimer: called through an instance it still hands the callback to a     *)
(* timer of the event loop's own, and the instance kept in _corner_timer   *)
(* is never started, so stop() on it stops nothing.                        *)
(***************************************************************************)
DebounceDelay(t, lastApply) == Max(0, DebounceMs - (t - lastApply))

PendingAfterStop(p, timer) == p

\* a mutant: a trigger that comes less than 50 ms after an application is
\* dropped instead of delayed
PendingAfterDebounceThrottled(p, timer, t, lastApply) ==
    IF DebounceDelay(t, lastApply) > 0 THEN p ELSE Append(p, t)


PendingAfterDebounce(p, timer, t, lastApply) ==
    Append(PendingAfterStop(p, timer), t + DebounceDelay(t, lastApply))

\* the state a call of _debounced_apply_corners leaves
Debounced ==
    /\ corner_timer' = "QTimer"
    /\ pending' = PendingAfterDebounce(pending, corner_timer, now, last_corner_apply)
    /\ burst' = BurstAfterTrigger(burst, now)

NotDebounced == UNCHANGED <<corner_timer, pending, burst>>

CanSchedule == Len(pending) < MaxPending

(***************************************************************************)
(* isMaximized, and what ShowWindow does to the window's zoomed state.     *)
(***************************************************************************)
isMaximized(h, z) == IF ~Truthy(h) THEN FALSE ELSE z

ZoomedAfterShow(cmd, z) ==
    IF cmd = SW_MAXIMIZE THEN TRUE
    ELSE IF cmd = SW_RESTORE THEN FALSE
    ELSE z

\* a mutant: the maximize button always maximizes
ToggleCommandAlwaysMaximize(old_maximized) == SW_MAXIMIZE

\* the directive the maximize button issues: the opposite of the current state
ToggleCommand(old_maximized) == IF old_maximized THEN SW_RESTORE ELSE SW_MAXIMIZE

(***************************************************************************)
(* apply_rounded_corners.  dwmOk: DwmSetWindowAttribute answers S_OK;      *)
(* rectOk: GetWindowRect succeeds; rgnOk: CreateRoundRectRgn gives a       *)
(* region and SetWindowRgn installs it; w, hgt: the window rectangle's     *)
(* size; dpr = <<numerator, denominator>> of devicePixelRatio().           *)
(***************************************************************************)
Scaled(n, dpr) == (n * dpr[1]) \div dpr[2]

(***************************************************************************)
(* _set_rounded_region's handling of the handle CreateRoundRectRgn gives.  *)
(* setRgn: what SetWindowRgn does with it: "ok" (the system takes the      *)
(* region over), "fail" (it answers 0 and the region stays the caller's)   *)
(* or "raise".  The answer is not looked at: region = None follows every   *)
(* call that returns, and the finally clause deletes what is still held.   *)
(***************************************************************************)
RegionFate(rectOk, rgnOk, setRgn) ==
    IF ~rectOk \/ ~rgnOk THEN NoRegion
    ELSE [created |-> TRUE, transferred |-> setRgn = "ok", deleted |-> setRgn = "raise"]

\* the manual strategy runs: a valid handle, not maximized, and the native
\* preference unavailable or refused
ManualStrategy(h, z, win11, dwmOk) ==
    Truthy(h) /\ ~isMaximized(h, z) /\ ~(win11 /\ dwmOk)

SetRgnOutcomes == {"ok", "fail", "raise"}

\* a mutant: the maximized state is not looked at
CornersAppliedAlwaysRound(h, z, win11, pref, rgn, dwmOk, rectOk, rgnOk, w, hgt, dpr) ==
    IF ~Truthy(h) THEN <<pref, rgn>>
    ELSE IF win11 /\ dwmOk THEN <<DWMWCP_ROUND, rgn>>
    ELSE IF rectOk /\ rgnOk
    THEN <<pref, <<w, hgt, Scaled(ROUND_CORNER_RADIUS, dpr)>> >>
    ELSE <<pref, rgn>>

\* <<corner preference, clip region>> after one application
CornersApplied(h, z, win11, pref, rgn, dwmOk, rectOk, rgnOk, w, hgt, dpr) ==
    IF ~Truthy(h) THEN <<pref, rgn>>
    ELSE IF isMaximized(h, z)
    THEN <<IF win11 /\ dwmOk THEN DWMWCP_DONOTROUND ELSE pref, WholeWindow>>
    ELSE IF win11 /\ dwmOk THEN <<DWMWCP_ROUND, rgn>>
    ELSE IF rectOk /\ rgnOk
    THEN <<pref, <<w, hgt, Scaled(ROUND_CORNER_RADIUS, dpr)>> >>
    ELSE <<pref, rgn>>

(***************************************************************************)
(* Failures of the collaborators.  A fault names the call that raises and  *)
(* the class of the exception; NoFault: every call returns.                *)
(***************************************************************************)
NoFault == [exc |-> NoneS, site |-> NoneS]
Fault(site, exc) == [exc |-> exc, site |-> site]
ExcKinds == {"OSError", "ValueError", "TypeError", "RuntimeError"}
FaultsAt(sites) == {NoFault} \cup {Fault(s, e) : s \in sites, e \in ExcKinds}

(***************************************************************************)
(* _dispatch_titlebar.  hook: [kind |-> "absent"] (no hook is registered), *)
(* or what the registered hook does when called: [kind |-> "none"] (no     *)
(* opinion), [kind |-> "raise", exc |-> class] or [kind |-> "answer",      *)
(* ans |-> <<handled, code>>].                                             *)
(***************************************************************************)
TITLE_BAR_FALLBACK == TRUE

HookCaught == {"AttributeError", "TypeError", "ValueError"}

TitlebarFallback(y) ==
    IF TITLE_BAR_FALLBACK /\ y < TITLE_BAR_FALLBACK_HEIGHT
    THEN Returned(TRUE, HTCAPTION)
    ELSE Returned(FALSE, 0)

DispatchTitlebar(hook, y) ==
    IF hook.kind = "answer" THEN Returned(hook.ans[1], hook.ans[2])
    ELSE IF hook.kind = "raise" /\ hook.exc \notin HookCaught THEN Raised(hook.exc)
    ELSE TitlebarFallback(y)

(***************************************************************************)
(* _handle_hittest for the window-local point (x, y), a window of w x h,   *)
(* device pixel ratio dpr, handle hw and zoomed state z.  f: the fault of  *)
(* this call ("geometry": a query of the host window, "IsZoomed").         *)
(***************************************************************************)
BorderPx(dpr) == Scaled(BORDER_WIDTH, dpr)

\* a mutant: the edges tested before the corners
BorderRegionEdgesFirst(x, y, w, h, bw) ==
    IF y < bw THEN HTTOP
    ELSE IF y > h - bw THEN HTBOTTOM
    ELSE IF x < bw THEN HTLEFT
    ELSE IF x > w - bw THEN HTRIGHT
    ELSE NoneV

\* lines 306-324: corners first, then edges; NoneV when no band holds the point
BorderRegion(x, y, w, h, bw) ==
    IF x < bw /\ y < bw THEN HTTOPLEFT
    ELSE IF x > w - bw /\ y < bw THEN HTTOPRIGHT
    ELSE IF x < bw /\ y > h - bw THEN HTBOTTOMLEFT
    ELSE IF x > w - bw /\ y > h - bw THEN HTBOTTOMRIGHT
    ELSE IF y < bw THEN HTTOP
    ELSE IF y > h - bw THEN HTBOTTOM
    ELSE IF x < bw THEN HTLEFT
    ELSE IF x > w - bw THEN HTRIGHT
    ELSE NoneV

\* a mutant: no test of the maximized state
HittestBodyBordersAlways(x, y, w, h, dpr, hw, z, hook) ==
    IF BorderRegion(x, y, w, h, BorderPx(dpr)) # NoneV
    THEN Returned(TRUE, BorderRegion(x, y, w, h, BorderPx(dpr)))
    ELSE DispatchTitlebar(hook, y)

HittestBody(x, y, w, h, dpr, hw, z, hook) ==
    IF isMaximized(hw, z) THEN DispatchTitlebar(hook, y)
    ELSE IF BorderRegion(x, y, w, h, BorderPx(dpr)) # NoneV
    THEN Returned(TRUE, BorderRegion(x, y, w, h, BorderPx(dpr)))
    ELSE DispatchTitlebar(hook, y)

\* the try/except Exception around the body
HandleHittest(x, y, w, h, dpr, hw, z, hook, f) ==
    IF f # NoFault THEN Returned(FALSE, 0)
    ELSE IF HittestBody(x, y, w, h, dpr, hw, z, hook).raised # NoneS
    THEN Returned(FALSE, 0)
    ELSE HittestBody(x, y, w, h, dpr, hw, z, hook)

(***************************************************************************)
(* _handle_getminmax.  lParam: the address of the MINMAXINFO record (0:    *)
(* none); mon: [handle, infoOk, work, full]: what MonitorFromWindow and    *)
(* GetMonitorInfoW give; minSize: the host window's minimum <<w, h>>; f:   *)
(* the fault of this call; info: the record as the system supplied it.     *)
(* The fields are C longs, as wide as the integers of the model.  Gives    *)
(* <<returned, the record afterwards>>.                                    *)
(***************************************************************************)
Rect(l, t, r, b) == [left |-> l, top |-> t, right |-> r, bottom |-> b]

MinMaxCaught == {"OSError", "ValueError"}

\* a mutant: the work area's origin, the monitor's origin forgotten
MaxPositionOfWorkOrigin(work, full) == <<work.left, work.top>>

MaxPosition(work, full) ==
    <<work.left - full.left, work.top - full.top>>

MaxSize(work) ==
    <<work.right - work.left, work.bottom - work.top>>

MinTrackSize(minSize) ==
    <<Max(minSize[1], MinTrackWidthFloor), Max(minSize[2], MinTrackHeightFloor)>>

MinMaxFailed(f) == IF f.exc \in MinMaxCaught THEN Returned(FALSE, 0) ELSE Raised(f.exc)

\* a mutant: the minimum track size is written before the monitor is resolved
HandleGetMinMaxMinFirst(lParam, hw, mon, minSize, f, info) ==
    IF lParam = 0 THEN <<Returned(FALSE, 0), info>>
    ELSE IF ~Truthy(hw) \/ mon.handle = 0 \/ ~mon.infoOk \/ f # NoFault
    THEN <<Returned(FALSE, 0), [info EXCEPT !.ptMinTrackSize = MinTrackSize(minSize)]>>
    ELSE <<Returned(TRUE, 0),
           [info EXCEPT !.ptMaxPosition = MaxPosition(mon.work, mon.full),
                        !.ptMaxSize = MaxSize(mon.work),
                        !.ptMinTrackSize = MinTrackSize(minSize)]>>

HandleGetMinMax(lParam, hw, mon, minSize, f, info) ==
    IF lParam = 0 THEN <<Returned(FALSE, 0), info>>
    ELSE IF ~Truthy(hw) THEN <<Returned(FALSE, 0), info>>
    ELSE IF f.site = "MonitorFromWindow" THEN <<MinMaxFailed(f), info>>
    ELSE IF mon.handle = 0 THEN <<Returned(FALSE, 0), info>>
    ELSE IF f.site = "GetMonitorInfoW" THEN <<MinMaxFailed(f), info>>
    ELSE IF ~mon.infoOk THEN <<Returned(FALSE, 0), info>>
    ELSE IF f.site = "minimumSize"
    THEN <<MinMaxFailed(f),
           [info EXCEPT !.ptMaxPosition = MaxPosition(mon.work, mon.full),
                        !.ptMaxSize = MaxSize(mon.work)]>>
    ELSE <<Returned(TRUE, 0),
           [info EXCEPT !.ptMaxPosition = MaxPosition(mon.work, mon.full),
                        !.ptMaxSize = MaxSize(mon.work),
                        !.ptMinTrackSize = MinTrackSize(minSize)]>>

(***************************************************************************)
(* setup_win32_frame's change of the style bits: style |= WS_THICKFRAME,   *)
(* style &= ~WS_CAPTION, on an integer of any sign.                        *)
(***************************************************************************)
WithThickFrame(st) ==
    IF (st \div WS_THICKFRAME) % 2 = 1 THEN st ELSE st + WS_THICKFRAME

\* a mutant: only the border bit of the caption removed
WithoutBorderOnly(st) ==
    st - ((st \div (2 * (WS_CAPTION \div 3))) % 2) * (2 * (WS_CAPTION \div 3))

WithoutCaption(st) ==
    st - ((st \div (WS_CAPTION \div 3)) % 4) * (WS_CAPTION \div 3)

SetupStyle(st) == WithoutCaption(WithThickFrame(st))

\* the history of the operation that ends: the triggers it issued are the
\* callbacks it added to the event loop
Recorded(l) ==
    /\ last' = [l EXCEPT !.triggers = Len(pending') - Len(pending)]
    /\ prev' = Summary(last)

cfgVars == <<is_windows_11, titlebar_hook, env>>
setupVars == <<hwnd, installed, style, ncPolicy, blur>>
cursorVars == <<osCursor, original_cursor>>
clockVars == <<last_corner_apply, now>>
cornerVars == <<cornerPref, windowRgn, region>>

(***************************************************************************)
(* _post_init, run by the event loop after init().  wid: what winId()      *)
(* gives: a handle, 0, or None (int(None) raises TypeError before self.hwnd *)
(* is assigned).                                                           *)
(***************************************************************************)
\* a mutant: the handler is installed before the handle is validated
PostInitInstallFirst(wid) ==
    /\ ~installed
    /\ hwnd' = IF wid = NoneV THEN hwnd ELSE wid
    /\ installed' = TRUE
    /\ IF ~Truthy(wid)
       THEN /\ ret' = Raised(IF wid = NoneV THEN "TypeError" ELSE "RuntimeError")
            /\ NotDebounced
            /\ UNCHANGED <<style, ncPolicy, blur>>
       ELSE /\ style' = SetupStyle(style)
            /\ ncPolicy' = DWMNCRP_DISABLED
            /\ Debounced
            /\ blur' = TRUE
            /\ ret' = NoRet
    /\ Recorded([Op("_post_init", zoomed, 0) EXCEPT !.arg = [wid |-> wid]])
    /\ UNCHANGED <<cfgVars, zoomed, cursorVars, clockVars, cornerVars>>

PostInit(wid) ==
    /\ ~installed
    /\ hwnd' = IF wid = NoneV THEN hwnd ELSE wid
    /\ IF ~Truthy(wid)
       THEN /\ ret' = Raised(IF wid = NoneV THEN "TypeError" ELSE "RuntimeError")
            /\ NotDebounced
            /\ UNCHANGED <<installed, style, ncPolicy, blur>>
       ELSE /\ installed' = TRUE
            /\ style' = SetupStyle(style)
            /\ ncPolicy' = DWMNCRP_DISABLED
            /\ Debounced
            /\ blur' = TRUE
            /\ ret' = NoRet
    /\ Recorded([Op("_post_init", zoomed, 0) EXCEPT !.arg = [wid |-> wid]])
    /\ UNCHANGED <<cfgVars, zoomed, cursorVars, clockVars, cornerVars>>

(***************************************************************************)
(* showMaximized and showNormal, as patched onto the window.               *)
(***************************************************************************)
Show(name, cmd) ==
    /\ installed
    /\ CanSchedule
    /\ IF ~Truthy(hwnd)
       THEN /\ NotDebounced
            /\ UNCHANGED zoomed
       ELSE /\ zoomed' = ZoomedAfterShow(cmd, zoomed)
            /\ Debounced
    /\ ret' = NoRet
    /\ Recorded(Op(name, zoomed, 0))
    /\ UNCHANGED <<cfgVars, setupVars, cursorVars, clockVars, cornerVars>>

ShowMaximized == Show("showMaximized", SW_MAXIMIZE)

ShowNormal == Show("showNormal", SW_RESTORE)

(***************************************************************************)
(* The event loop: the clock advances; a single-shot callback whose        *)
(* deadline has come runs _apply_corners_now.                              *)
(***************************************************************************)
Tick ==
    /\ now + TickStep <= StartTime + MaxElapsed
    /\ now' = now + TickStep
    /\ UNCHANGED <<cfgVars, setupVars, zoomed, cursorVars, corner_timer, pending,
                   last_corner_apply, cornerVars, burst, ret, last, prev>>

\* apply_rounded_corners: what one call does to the presentation
ApplyRoundedCornersBody(dwmOk, rectOk, rgnOk, setRgn) ==
    /\ cornerPref' = CornersApplied(hwnd, zoomed, is_windows_11, cornerPref, windowRgn,
                                   dwmOk, rectOk, rgnOk /\ setRgn = "ok",
                                   env.w, env.h, env.dpr)[1]
    /\ windowRgn' = CornersApplied(hwnd, zoomed, is_windows_11, cornerPref, windowRgn,
                                  dwmOk, rectOk, rgnOk /\ setRgn = "ok",
                                  env.w, env.h, env.dpr)[2]
    /\ region' = IF ManualStrategy(hwnd, zoomed, is_windows_11, dwmOk)
                 THEN RegionFate(rectOk, rgnOk, setRgn)
                 ELSE NoRegion

\* _apply_corners_now, run by the event loop for a callback that is due
ApplyCornersNow(dwmOk, rectOk, rgnOk, setRgn) ==
    /\ pending # <<>>
    /\ Head(pending) <= now
    /\ pending' = Tail(pending)
    /\ last_corner_apply' = now
    /\ ApplyRoundedCornersBody(dwmOk, rectOk, rgnOk, setRgn)
    /\ burst' = [burst EXCEPT !.apps = @ + 1]
    /\ UNCHANGED <<cfgVars, setupVars, zoomed, cursorVars, corner_timer, now,
                   ret, last, prev>>

\* apply_rounded_corners called by the application itself: no callback is
\* taken and the time of the last application is not written
ApplyRoundedCorners(dwmOk, rectOk, rgnOk, setRgn) ==
    /\ ApplyRoundedCornersBody(dwmOk, rectOk, rgnOk, setRgn)
    /\ NotDebounced
    /\ ret' = NoRet
    /\ Recorded(Op("apply_rounded_corners", zoomed, 0))
    /\ UNCHANGED <<cfgVars, setupVars, zoomed, cursorVars, clockVars>>

(***************************************************************************)
(* cleanup.                                                                *)
(***************************************************************************)
Cleanup ==
    /\ osCursor' = IF Truthy(original_cursor) THEN original_cursor ELSE osCursor
    /\ pending' = PendingAfterStop(pending, corner_timer)
    /\ ret' = NoRet
    /\ Recorded(Op("cleanup", zoomed, 0))
    /\ UNCHANGED <<cfgVars, setupVars, zoomed, original_cursor, corner_timer,
                   clockVars, cornerVars, burst>>

(***************************************************************************)
(* nativeEvent, one action for each path through it.  Every path needs the *)
(* handler installed.  o: what the previously-installed handler does when  *)
(* the message reaches it (its answer, or the exception it raises).        *)
(***************************************************************************)
Answer(r, l) ==
    /\ ret' = r
    /\ Recorded(l)

\* eventType is not b"windows_generic_MSG"
NE_NotGeneric(m, o) ==
    /\ installed
    /\ NotDebounced
    /\ Answer(o, [Msg(m, 0, NoFault, zoomed, 0, 0, 1, NoArg, o)
                      EXCEPT !.op = "nativeEvent-other-type"])
    /\ UNCHANGED <<cfgVars, setupVars, zoomed, cursorVars, clockVars, cornerVars>>

\* lines 148-149 and 169-170: non-client paint, activate and calc-size
NE_NonClient(m) ==
    /\ installed
    /\ NotDebounced
    /\ m \in {WM_NCPAINT, WM_NCACTIVATE, WM_NCCALCSIZE}
    /\ Answer(Returned(TRUE, 0), Msg(m, 0, NoFault, zoomed, 0, 0, 0, NoArg, NoArg))
    /\ UNCHANGED <<cfgVars, setupVars, zoomed, cursorVars, clockVars, cornerVars>>

\* a mutant: the hand cursor is installed and the message still passed on
NE_SetCursorPassedOn(lParam, hcur, o) ==
    /\ installed
    /\ NotDebounced
    /\ lParam % 65536 = HTMAXBUTTON
    /\ original_cursor' = IF ~Truthy(original_cursor) THEN osCursor ELSE original_cursor
    /\ osCursor' = IF Truthy(hcur) THEN hcur ELSE osCursor
    /\ Answer(o, Msg(WM_SETCURSOR, HTMAXBUTTON, NoFault, zoomed, 0, 0, 1,
                     [lParam |-> lParam, hcur |-> hcur, active |-> osCursor,
                      saved |-> original_cursor], o))
    /\ UNCHANGED <<cfgVars, setupVars, zoomed, clockVars, cornerVars>>

\* lines 152-166.  hcur: what LoadCursorW(0, IDC_HAND) gives (0: failure)
SavedCursor(saved, active) == IF ~Truthy(saved) THEN active ELSE saved

NE_SetCursor(lParam, hcur, o) ==
    /\ installed
    /\ NotDebounced
    /\ LET ht == lParam % 65536 IN
       IF ht = HTMAXBUTTON
       THEN /\ original_cursor' = SavedCursor(original_cursor, osCursor)
            /\ IF Truthy(hcur)
               THEN /\ osCursor' = hcur
                    /\ Answer(Returned(TRUE, 1),
                              Msg(WM_SETCURSOR, ht, NoFault, zoomed, 0, 0, 0,
                                  [lParam |-> lParam, hcur |-> hcur, active |-> osCursor,
                                   saved |-> original_cursor], NoArg))
               ELSE /\ UNCHANGED osCursor
                    /\ Answer(o, Msg(WM_SETCURSOR, ht, NoFault, zoomed, 0, 0, 1,
                                     [lParam |-> lParam, hcur |-> hcur, active |-> osCursor,
                                      saved |-> original_cursor], o))
       ELSE /\ IF Truthy(original_cursor)
               THEN osCursor' = original_cursor /\ original_cursor' = NoneV
               ELSE UNCHANGED cursorVars
            /\ hcur = 0
            /\ Answer(o, Msg(WM_SETCURSOR, ht, NoFault, zoomed, 0, 0, 1,
                             [lParam |-> lParam, hcur |-> hcur, active |-> osCursor,
                              saved |-> original_cursor], o))
    /\ UNCHANGED <<cfgVars, setupVars, zoomed, clockVars, cornerVars>>

\* lines 173-194 on a button-down over the maximize button
NE_MaxButtonDown ==
    /\ installed
    /\ NotDebounced
    /\ Answer(Returned(TRUE, 0),
              Msg(WM_NCLBUTTONDOWN, HTMAXBUTTON, NoFault, zoomed, 0, 0, 0, NoArg, NoArg))
    /\ UNCHANGED <<cfgVars, setupVars, zoomed, cursorVars, clockVars, cornerVars>>

\* a mutant: the button toggles only when the message before it was a
\* button-down over it
NE_MaxButtonToggleAfterDown(m, f) ==
    /\ installed
    /\ m \in {WM_NCLBUTTONUP, WM_NCLBUTTONDBLCLK}
    /\ f = NoFault
    /\ CanSchedule
    /\ zoomed' = IF IsMaxButtonDown(last)
                 THEN ZoomedAfterShow(ToggleCommand(isMaximized(hwnd, zoomed)), zoomed)
                 ELSE zoomed
    /\ Debounced
    /\ Answer(Returned(TRUE, 0),
              Msg(m, HTMAXBUTTON, f, zoomed, 1,
                  ToggleCommand(isMaximized(hwnd, zoomed)), 0, NoArg, NoArg))
    /\ UNCHANGED <<cfgVars, setupVars, cursorVars, clockVars, cornerVars>>

\* lines 183-194: button-up or double-click over the maximize button.
\* f: IsZoomed or ShowWindow raises (nothing catches it), or the button-state
\* observer raises (_update_maximize_button_state catches it)
NE_MaxButtonToggle(m, f) ==
    /\ installed
    /\ m \in {WM_NCLBUTTONUP, WM_NCLBUTTONDBLCLK}
    /\ f.site \in {NoneS, "IsZoomed", "ShowWindow", "setToolTip"}
    /\ IF f.site \in {"IsZoomed", "ShowWindow"}
       THEN /\ NotDebounced
            /\ UNCHANGED zoomed
            /\ Answer(Raised(f.exc),
                      Msg(m, HTMAXBUTTON, f, zoomed, 0, 0, 0, NoArg, NoArg))
       ELSE /\ CanSchedule
            /\ zoomed' = ZoomedAfterShow(ToggleCommand(isMaximized(hwnd, zoomed)), zoomed)
            /\ Debounced
            /\ Answer(Returned(TRUE, 0),
                      Msg(m, HTMAXBUTTON, f, zoomed, 1,
                          ToggleCommand(isMaximized(hwnd, zoomed)), 0, NoArg, NoArg))
    /\ UNCHANGED <<cfgVars, setupVars, cursorVars, clockVars, cornerVars>>

\* a mutant: the message is answered as handled and never passed on
NE_OtherSwallowed(m, ht, o) ==
    /\ installed
    /\ NotDebounced
    /\ \/ m \in {WM_NCLBUTTONDOWN, WM_NCLBUTTONUP, WM_NCLBUTTONDBLCLK} /\ ht # HTMAXBUTTON
       \/ m = WM_NCMOUSEMOVE
    /\ Answer(Returned(TRUE, 0), Msg(m, ht, NoFault, zoomed, 0, 0, 0, NoArg, o))
    /\ UNCHANGED <<cfgVars, setupVars, zoomed, cursorVars, clockVars, cornerVars>>

\* a non-client button message elsewhere, and any message nativeEvent has no
\* branch for: line 214
NE_Other(m, ht, o) ==
    /\ installed
    /\ NotDebounced
    /\ \/ m \in {WM_NCLBUTTONDOWN, WM_NCLBUTTONUP, WM_NCLBUTTONDBLCLK} /\ ht # HTMAXBUTTON
       \/ m = WM_NCMOUSEMOVE
    /\ Answer(o, Msg(m, ht, NoFault, zoomed, 0, 0, 1, NoArg, o))
    /\ UNCHANGED <<cfgVars, setupVars, zoomed, cursorVars, clockVars, cornerVars>>

\* lines 197-198
NE_GetMinMax(lParam, f, info) ==
    /\ installed
    /\ NotDebounced
    /\ f.site \in {NoneS, "MonitorFromWindow", "GetMonitorInfoW", "minimumSize"}
    /\ Answer(HandleGetMinMax(lParam, hwnd, env.mon, env.minSize, f, info)[1],
              Msg(WM_GETMINMAXINFO, 0, f, zoomed, 0, 0, 0,
                  [lParam |-> lParam, info |-> info],
                  HandleGetMinMax(lParam, hwnd, env.mon, env.minSize, f, info)[2]))
    /\ UNCHANGED <<cfgVars, setupVars, zoomed, cursorVars, clockVars, cornerVars>>

\* the same message given to the controller's nativeEvent before _post_init has
\* run (or after it raised), when self.hwnd is still None or 0
NE_GetMinMaxBeforeSetup(lParam, f, info) ==
    /\ ~installed
    /\ NotDebounced
    /\ f.site \in {NoneS, "MonitorFromWindow", "GetMonitorInfoW", "minimumSize"}
    /\ Answer(HandleGetMinMax(lParam, hwnd, env.mon, env.minSize, f, info)[1],
              Msg(WM_GETMINMAXINFO, 0, f, zoomed, 0, 0, 0,
                  [lParam |-> lParam, info |-> info],
                  HandleGetMinMax(lParam, hwnd, env.mon, env.minSize, f, info)[2]))
    /\ UNCHANGED <<cfgVars, setupVars, zoomed, cursorVars, clockVars, cornerVars>>

\* a mutant: the hit-test forgets the saved cursor
NE_HitTestClearsCursor(f) ==
    /\ installed
    /\ NotDebounced
    /\ f.site \in {NoneS, "geometry", "IsZoomed"}
    /\ Answer(HandleHittest(env.x, env.y, env.w, env.h, env.dpr, hwnd, zoomed,
                            titlebar_hook, f),
              Msg(WM_NCHITTEST, 0, f, zoomed, 0, 0, 0, NoArg, NoArg))
    /\ original_cursor' = NoneV
    /\ UNCHANGED <<cfgVars, setupVars, zoomed, osCursor, clockVars, cornerVars>>

\* lines 201-202
NE_HitTest(f) ==
    /\ installed
    /\ NotDebounced
    /\ f.site \in {NoneS, "geometry", "IsZoomed"}
    /\ Answer(HandleHittest(env.x, env.y, env.w, env.h, env.dpr, hwnd, zoomed,
                            titlebar_hook, f),
              Msg(WM_NCHITTEST, 0, f, zoomed, 0, 0, 0, NoArg, NoArg))
    /\ UNCHANGED <<cfgVars, setupVars, zoomed, cursorVars, clockVars, cornerVars>>

\* a mutant: the message is passed on without a corner trigger
NE_SizeMoveNoTrigger(m, o) ==
    /\ installed
    /\ m \in {WM_SIZE, WM_WINDOWPOSCHANGED, WM_EXITSIZEMOVE, WM_DPICHANGED}
    /\ NotDebounced
    /\ Answer(o, Msg(m, 0, NoFault, zoomed, 0, 0, 1, NoArg, o))
    /\ UNCHANGED <<cfgVars, setupVars, zoomed, cursorVars, clockVars, cornerVars>>

\* lines 205-214: size, window-pos-changed, exit-size-move, DPI-changed
NE_SizeMove(m, o) ==
    /\ installed
    /\ m \in {WM_SIZE, WM_WINDOWPOSCHANGED, WM_EXITSIZEMOVE, WM_DPICHANGED}
    /\ CanSchedule
    /\ Debounced
    /\ Answer(o, Msg(m, 0, NoFault, zoomed, 1, 0, 1, NoArg, o))
    /\ UNCHANGED <<cfgVars, setupVars, zoomed, cursorVars, clockVars, cornerVars>>

(***************************************************************************)
(* The inputs the environment chooses.                                     *)
(***************************************************************************)
OrigOutcomes == {Returned(FALSE, 0), Returned(TRUE, 1)}

\* lParam of a cursor-set message: the hit-test code in the low word, the mouse
\* message in the high word
CursorParams == {HTCLIENT, HTMAXBUTTON, 512 * 65536 + HTMAXBUTTON}

\* device pixel ratios as fractions: 100 % and 150 %
Dprs == {<<1, 1>>, <<3, 2>>}

HookOutcomes ==
    {[kind |-> "absent"], [kind |-> "none"]}
    \cup {[kind |-> "raise", exc |-> e] : e \in ExcKinds}
    \cup {[kind |-> "answer", ans |-> a] :
            a \in {<<TRUE, HTCAPTION>>, <<TRUE, HTMAXBUTTON>>, <<TRUE, HTLEFT>>, <<FALSE, 0>>}}

\* the monitor of the test in the specification, and the record as supplied
Monitor1080 ==
    [handle |-> 1, infoOk |-> TRUE, work |-> Rect(10, 10, 1910, 1070),
     full |-> Rect(0, 0, 1920, 1080)]

InfoSupplied ==
    [ptReserved |-> <<0, 0>>, ptMaxSize |-> <<1920, 1080>>, ptMaxPosition |-> <<0, 0>>,
     ptMinTrackSize |-> <<136, 39>>, ptMaxTrackSize |-> <<1940, 1100>>]

\* the points of the examples in the specification
ExamplePoints == {<<2, 2>>, <<200, 2>>, <<200, 15>>, <<200, 200>>}

Env(x, y, w, h, dpr, mon, minSize) ==
    [x |-> x, y |-> y, w |-> w, h |-> h, dpr |-> dpr, mon |-> mon, minSize |-> minSize]

\* the test window at 100 % scale on that monitor, the pointer on its top edge
EnvExample == Env(200, 2, WinW, WinH, <<1, 1>>, Monitor1080, <<200, 100>>)

NoHook == [kind |-> "absent"]

\* the pointer moves
MovePointer(p) ==
    /\ env' = [env EXCEPT !.x = p[1], !.y = p[2]]
    /\ env' # env
    /\ UNCHANGED <<is_windows_11, titlebar_hook, setupVars, zoomed, cursorVars,
                   corner_timer, pending, burst, clockVars, cornerVars, ret, last, prev>>

(***************************************************************************)
(* The debounce: the triggers (setup, a size message, the maximize button, *)
(* showMaximized and showNormal), the clock and the event loop's timers.   *)
(***************************************************************************)
InitDebounce == InitWith(BOOLEAN, {NoHook}, {IDC_ARROW}, {EnvExample})

NextDebounce ==
    \/ PostInit(ValidHwnd)
    \/ ShowMaximized
    \/ ShowNormal
    \/ Tick
    \/ \E dwmOk \in BOOLEAN : ApplyCornersNow(dwmOk, TRUE, TRUE, "ok")
    \/ \E dwmOk \in BOOLEAN : ApplyRoundedCorners(dwmOk, TRUE, TRUE, "ok")
    \/ NE_MaxButtonToggle(WM_NCLBUTTONUP, NoFault)
    \/ NE_SizeMove(WM_SIZE, OrigDeclines)

SpecDebounce == InitDebounce /\ [][NextDebounce]_vars

(***************************************************************************)
(* The dispatcher: every kind of message, the collaborators working.       *)
(***************************************************************************)
Init == InitWith({TRUE}, {NoHook}, {IDC_ARROW}, {EnvExample})

Next ==
    \/ \E wid \in {NoneV, 0, ValidHwnd} : PostInit(wid)
    \/ ShowMaximized
    \/ ShowNormal
    \/ ApplyCornersNow(TRUE, TRUE, TRUE, "ok")
    \/ ApplyRoundedCorners(TRUE, TRUE, TRUE, "ok")
    \/ \E o \in OrigOutcomes : NE_NotGeneric(WM_SIZE, o)
    \/ \E m \in {WM_NCPAINT, WM_NCACTIVATE, WM_NCCALCSIZE} : NE_NonClient(m)
    \/ \E lp \in {HTCLIENT, HTMAXBUTTON}, o \in OrigOutcomes :
          NE_SetCursor(lp, IF lp = HTMAXBUTTON THEN IDC_HAND ELSE 0, o)
    \/ NE_MaxButtonDown
    \/ \E m \in {WM_NCLBUTTONUP, WM_NCLBUTTONDBLCLK} : NE_MaxButtonToggle(m, NoFault)
    \/ \E m \in {WM_NCLBUTTONDOWN, WM_NCLBUTTONUP, WM_NCLBUTTONDBLCLK, WM_NCMOUSEMOVE},
          o \in OrigOutcomes : NE_Other(m, HTCAPTION, o)
    \/ NE_GetMinMax(1, NoFault, InfoSupplied)
    \/ \E p \in ExamplePoints : MovePointer(p)
    \/ NE_HitTest(NoFault)
    \/ \E m \in {WM_SIZE, WM_WINDOWPOSCHANGED, WM_EXITSIZEMOVE, WM_DPICHANGED},
          o \in OrigOutcomes : NE_SizeMove(m, o)

Spec == Init /\ [][Next]_vars

(***************************************************************************)
(* The cursor over the maximize button: cursor-set messages and cleanup,   *)
(* from every cursor that can be active (0: none).                         *)
(***************************************************************************)
InitCursor == InitWith({TRUE}, {NoHook}, {0, IDC_ARROW, IDC_SIZEWE}, {EnvExample})

NextCursor ==
    \/ PostInit(ValidHwnd)
    \/ \E lp \in CursorParams, hcur \in {0, IDC_HAND}, o \in OrigOutcomes :
          NE_SetCursor(lp, hcur, o)
    \/ \E o \in OrigOutcomes : NE_Other(WM_NCMOUSEMOVE, HTCLIENT, o)
    \/ ApplyCornersNow(TRUE, TRUE, TRUE, "ok")
    \/ ApplyRoundedCorners(TRUE, TRUE, TRUE, "ok")
    \/ Cleanup

SpecCursor == InitCursor /\ [][NextCursor]_vars

(***************************************************************************)
(* The hit-test: the pointer, the window's size and scale and the hook's   *)
(* behaviour are drawn at the start; the window is shown maximized or      *)
(* restored and asked for the region under the pointer.  The pointer is    *)
(* sampled in and Margin pixels around every resize band, at the examples' *)
(* points and at the fallback title bar's lower end.                       *)
(***************************************************************************)
Band(size, bw) ==
    {v \in (0 - Margin)..(size - 1 + Margin) : v < bw + Margin \/ v > size - bw - Margin}

XCoords(w, bw) == Band(w, bw) \cup {p[1] : p \in ExamplePoints}

YCoords(h, bw) ==
    Band(h, bw) \cup {p[2] : p \in ExamplePoints}
        \cup {TITLE_BAR_FALLBACK_HEIGHT - 1, TITLE_BAR_FALLBACK_HEIGHT}

WindowSizes == {<<WinW, WinH>>, <<WinW \div 8, WinH \div 4>>}

HitEnvs ==
    UNION {{Env(x, y, sz[1], sz[2], dpr, Monitor1080, <<200, 100>>) :
              x \in XCoords(sz[1], BorderPx(dpr)), y \in YCoords(sz[2], BorderPx(dpr))} :
           sz \in WindowSizes, dpr \in Dprs}

InitHit == InitWith({TRUE}, HookOutcomes, {IDC_ARROW}, HitEnvs)

NextHit ==
    \/ PostInit(ValidHwnd)
    \/ ShowMaximized
    \/ ShowNormal
    \/ NE_HitTest(NoFault)

SpecHit == InitHit /\ [][NextHit]_vars

(***************************************************************************)
(* The min/max computation: the monitor under the window and the window's  *)
(* minimum size are drawn at the start.                                    *)
(***************************************************************************)
Monitors ==
    {[handle |-> hd, infoOk |-> ok, work |-> r[1], full |-> r[2]] :
        hd \in {0, 1}, ok \in BOOLEAN,
        r \in {<<Rect(10, 10, 1910, 1070), Rect(0, 0, 1920, 1080)>>,
               <<Rect(0 - 1920, 0, 0, 1040), Rect(0 - 1920, 0, 0, 1080)>>,
               <<Rect(1980, 25, 3840, 1080), Rect(1920, 0, 3840, 1080)>>}}

MinSizes == {<<0, 0>>, <<200, 100>>, <<199, 101>>, <<201, 99>>, <<640, 480>>}

MinMaxEnvs ==
    {Env(200, 2, WinW, WinH, <<1, 1>>, mon, ms) : mon \in Monitors, ms \in MinSizes}

InitMinMax == InitWith({TRUE}, {NoHook}, {IDC_ARROW}, MinMaxEnvs)

NextMinMax ==
    \/ \E wid \in {0, ValidHwnd} : PostInit(wid)
    \/ \E lp \in {0, 1},
          f \in FaultsAt({"MonitorFromWindow", "GetMonitorInfoW", "minimumSize"}) :
          NE_GetMinMax(lp, f, InfoSupplied)
    \/ \E lp \in {0, 1} : NE_GetMinMaxBeforeSetup(lp, NoFault, InfoSupplied)

SpecMinMax == InitMinMax /\ [][NextMinMax]_vars

(***************************************************************************)
(* The dispatcher with failing collaborators: a call of the system or of   *)
(* the host window raises, the hook raises.                                *)
(***************************************************************************)
InitFaults ==
    InitWith({TRUE}, {NoHook, [kind |-> "raise", exc |-> "RuntimeError"],
                      [kind |-> "raise", exc |-> "TypeError"]},
             {IDC_ARROW}, {EnvExample, [EnvExample EXCEPT !.y = 15]})

NextFaults ==
    \/ PostInit(ValidHwnd)
    \/ ApplyCornersNow(TRUE, TRUE, TRUE, "ok")
    \/ ApplyRoundedCorners(TRUE, TRUE, TRUE, "ok")
    \/ \E o \in OrigOutcomes : NE_NotGeneric(WM_SIZE, o)
    \/ \E m \in {WM_NCPAINT, WM_NCACTIVATE, WM_NCCALCSIZE} : NE_NonClient(m)
    \/ \E o \in OrigOutcomes : NE_SetCursor(HTCLIENT, 0, o)
    \/ NE_SetCursor(HTMAXBUTTON, IDC_HAND, OrigDeclines)
    \/ NE_MaxButtonDown
    \/ \E m \in {WM_NCLBUTTONUP, WM_NCLBUTTONDBLCLK},
          f \in FaultsAt({"IsZoomed", "ShowWindow", "setToolTip"}) :
          NE_MaxButtonToggle(m, f)
    \/ \E o \in OrigOutcomes : NE_Other(WM_NCMOUSEMOVE, HTCAPTION, o)
    \/ \E f \in FaultsAt({"MonitorFromWindow", "GetMonitorInfoW", "minimumSize"}) :
          NE_GetMinMax(1, f, InfoSupplied)
    \/ \E f \in FaultsAt({"geometry", "IsZoomed"}) : NE_HitTest(f)
    \/ \E o \in OrigOutcomes : NE_SizeMove(WM_SIZE, o)

SpecFaults == InitFaults /\ [][NextFaults]_vars

(***************************************************************************)
(* Teardown: the window is set up, triggers schedule corner callbacks, the *)
(* clock advances, the event loop runs the callbacks that are due, and     *)
(* cleanup is called.                                                      *)
(***************************************************************************)
InitTeardown == InitWith({TRUE}, {NoHook}, {IDC_ARROW}, {EnvExample})

NextTeardown ==
    \/ PostInit(ValidHwnd)
    \/ ShowMaximized
    \/ NE_SizeMove(WM_SIZE, OrigDeclines)
    \/ NE_SetCursor(HTMAXBUTTON, IDC_HAND, OrigDeclines)
    \/ Tick
    \/ ApplyCornersNow(TRUE, TRUE, TRUE, "ok")
    \/ ApplyRoundedCorners(TRUE, TRUE, TRUE, "ok")
    \/ Cleanup

SpecTeardown == InitTeardown /\ [][NextTeardown]_vars

(***************************************************************************)
(* The corner presentation: windows of several sizes and scales, on a      *)
(* build with the native corner preference and on one without, shown       *)
(* maximized and restored, the system's calls succeeding.                  *)
(***************************************************************************)
CornerEnvs ==
    {Env(200, 2, sz[1], sz[2], dpr, Monitor1080, <<200, 100>>) :
        sz \in WindowSizes, dpr \in Dprs}

InitCorners == InitWith(BOOLEAN, {NoHook}, {IDC_ARROW}, CornerEnvs)

NextCorners ==
    \/ PostInit(ValidHwnd)
    \/ ShowMaximized
    \/ ShowNormal
    \/ \E m \in {WM_NCLBUTTONUP, WM_NCLBUTTONDBLCLK} : NE_MaxButtonToggle(m, NoFault)
    \/ Tick
    \/ ApplyCornersNow(TRUE, TRUE, TRUE, "ok")
    \/ ApplyRoundedCorners(TRUE, TRUE, TRUE, "ok")

SpecCorners == InitCorners /\ [][NextCorners]_vars

(***************************************************************************)
(* The region handles of the manual strategy: applications on a build with *)
(* and without the native corner preference, each call of the system       *)
(* succeeding or not.                                                      *)
(***************************************************************************)
InitRegion == InitWith(BOOLEAN, {NoHook}, {IDC_ARROW}, {EnvExample})

NextRegion ==
    \/ PostInit(ValidHwnd)
    \/ ShowMaximized
    \/ ShowNormal
    \/ Tick
    \/ \E dwmOk \in BOOLEAN, rectOk \in BOOLEAN, rgnOk \in BOOLEAN,
          setRgn \in SetRgnOutcomes : ApplyCornersNow(dwmOk, rectOk, rgnOk, setRgn)
    \/ \E dwmOk \in BOOLEAN, rectOk \in BOOLEAN, rgnOk \in BOOLEAN,
          setRgn \in SetRgnOutcomes : ApplyRoundedCorners(dwmOk, rectOk, rgnOk, setRgn)

SpecRegion == InitRegion /\ [][NextRegion]_vars

(***************************************************************************)
(* The debounce under a running event loop: the clock keeps advancing and  *)
(* every callback that is due is run (Qt's event loop fires a single-shot  *)
(* timer once its interval has passed), the system's calls succeeding, no  *)
(* teardown.  The clock of the model stops at LastTick, so a trigger is    *)
(* taken only while its callback comes due by then.                        *)
(***************************************************************************)
LastTick == StartTime + (MaxElapsed \div TickStep) * TickStep

TriggerInTime == now + DebounceDelay(now, last_corner_apply) <= LastTick

InitLive == InitWith(BOOLEAN, {NoHook}, {IDC_ARROW}, {EnvExample})

NextLive ==
    \/ PostInit(ValidHwnd)
    \/ (TriggerInTime /\ ShowMaximized)
    \/ (TriggerInTime /\ ShowNormal)
    \/ (TriggerInTime /\ NE_MaxButtonToggle(WM_NCLBUTTONUP, NoFault))
    \/ (TriggerInTime /\ NE_SizeMove(WM_SIZE, OrigDeclines))
    \/ Tick
    \/ ApplyCornersNow(TRUE, TRUE, TRUE, "ok")
    \/ ApplyRoundedCorners(TRUE, TRUE, TRUE, "ok")

SpecLive ==
    /\ InitLive
    /\ [][NextLive]_vars
    /\ WF_vars(Tick)
    /\ WF_vars(ApplyCornersNow(TRUE, TRUE, TRUE, "ok"))

(***************************************************************************)
(* The hit-test as a query: asked with and without a hook, with a cursor   *)
(* saved or not, with callbacks pending or not, maximized or restored, its *)
(* own calls of the host window and of the system answering or raising.    *)
(***************************************************************************)
QueryEnvs ==
    {[EnvExample EXCEPT !.x = p[1], !.y = p[2]] : p \in ExamplePoints}

InitQuery == InitWith({TRUE}, HookOutcomes, {IDC_ARROW}, QueryEnvs)

NextQuery ==
    \/ PostInit(ValidHwnd)
    \/ ShowMaximized
    \/ ShowNormal
    \/ \E lp \in {HTCLIENT, HTMAXBUTTON} :
          NE_SetCursor(lp, IF lp = HTMAXBUTTON THEN IDC_HAND ELSE 0, OrigDeclines)
    \/ ApplyCornersNow(TRUE, TRUE, TRUE, "ok")
    \/ ApplyRoundedCorners(TRUE, TRUE, TRUE, "ok")
    \/ \E f \in FaultsAt({"geometry", "IsZoomed"}) : NE_HitTest(f)

SpecQuery == InitQuery /\ [][NextQuery]_vars

(***************************************************************************)
(* The frame setup on windows of many styles: the style read by            *)
(* GetWindowLongW is a signed 32-bit integer, drawn at the start as any    *)
(* combination of the thick-frame bit, the two caption bits, four other    *)
(* bits and the sign bit (WS_POPUP).  The handle is valid, zero or absent. *)
(***************************************************************************)
RECURSIVE SumOf(_)
SumOf(S) == IF S = {} THEN 0 ELSE LET b == CHOOSE v \in S : TRUE IN b + SumOf(S \ {b})

StyleBitsDrawn ==
    {1, 65536, 524288, WS_THICKFRAME, WS_CAPTION \div 3, 2 * (WS_CAPTION \div 3), 268435456}

SignBit == (0 - 2147483647) - 1

Styles == {SumOf(S) + sgn : S \in SUBSET StyleBitsDrawn, sgn \in {0, SignBit}}

InitStyle == InitStyled({TRUE}, {NoHook}, {IDC_ARROW}, {EnvExample}, Styles)

NextStyle ==
    \/ \E wid \in {NoneV, 0, ValidHwnd} : PostInit(wid)
    \/ ShowMaximized
    \/ ShowNormal
    \/ ApplyCornersNow(TRUE, TRUE, TRUE, "ok")
    \/ ApplyRoundedCorners(TRUE, TRUE, TRUE, "ok")

SpecStyle == InitStyle /\ [][NextStyle]_vars

(***************************************************************************)
(*                              The claims                                 *)
(***************************************************************************)

\* C1: a burst of N >= 1 corner triggers that all arrive within less than the
\* 50 ms debounce interval, with no application in between, is followed by one
\* application only: never by a second one before the next trigger.
C1_BurstAppliedOnce ==
    (burst.n >= 1 /\ burst.end - burst.start < DebounceMs) => burst.apps <= 1

\* C2: at most one delayed corner-application callback is pending in every
\* reachable state.
C2_AtMostOnePending == Len(pending) <= 1

\* C3: two consecutive cursor-set messages over the maximize button, the first
\* of them with no cursor saved yet, leave the saved cursor equal to the cursor
\* that was active before the first.
C3_SecondSaveKeepsOriginal ==
    (IsCursorSave(last) /\ prev.kind = "save" /\ prev.saved = NoneV)
        => original_cursor = prev.active

\* the last operation was a hit-test that no collaborator failed
HitDone == last.op = "nativeEvent" /\ last.msg = WM_NCHITTEST /\ last.fault = NoFault

B == BorderPx(env.dpr)
NearLeft == env.x < B
NearRight == env.w - env.x < B
NearTop == env.y < B
NearBottom == env.h - env.y < B
Inside == 0 <= env.x /\ env.x < env.w /\ 0 <= env.y /\ env.y < env.h

Caption == Returned(TRUE, HTCAPTION)
NoHit == Returned(FALSE, 0)

\* C4: on a restored window with B < W/2 and B < H/2, a point inside the window
\* lies in one region only and gets that region's code: within B of two adjacent
\* edges the corner's, within B of one edge that edge's, and elsewhere no
\* border code of the controller's own; (2,2) on 400x300 with B = 8 gives
\* top-left and (200,2) gives top.
C4_OneRegionCornersFirst ==
    (HitDone /\ ~last.zBefore /\ Inside /\ 2 * B < env.w /\ 2 * B < env.h) =>
        /\ (NearLeft /\ NearTop) => ret = Returned(TRUE, HTTOPLEFT)
        /\ (NearRight /\ NearTop) => ret = Returned(TRUE, HTTOPRIGHT)
        /\ (NearLeft /\ NearBottom) => ret = Returned(TRUE, HTBOTTOMLEFT)
        /\ (NearRight /\ NearBottom) => ret = Returned(TRUE, HTBOTTOMRIGHT)
        /\ (NearTop /\ ~NearLeft /\ ~NearRight) => ret = Returned(TRUE, HTTOP)
        /\ (NearBottom /\ ~NearLeft /\ ~NearRight) => ret = Returned(TRUE, HTBOTTOM)
        /\ (NearLeft /\ ~NearTop /\ ~NearBottom) => ret = Returned(TRUE, HTLEFT)
        /\ (NearRight /\ ~NearTop /\ ~NearBottom) => ret = Returned(TRUE, HTRIGHT)
        /\ (~NearLeft /\ ~NearRight /\ ~NearTop /\ ~NearBottom
              /\ titlebar_hook.kind # "answer") => ret \in {Caption, NoHit}
        /\ ~(NearLeft /\ NearRight) /\ ~(NearTop /\ NearBottom)
        /\ (B = 8 /\ env.w = 400 /\ env.h = 300 /\ env.x = 2 /\ env.y = 2)
              => ret.result = HTTOPLEFT
        /\ (B = 8 /\ env.w = 400 /\ env.h = 300 /\ env.x = 200 /\ env.y = 2)
              => ret.result = HTTOP

\* a point within B of the top and of the right edge got the top-right code
C4_Witness ==
    /\ HitDone /\ ~last.zBefore /\ Inside /\ 2 * B < env.w /\ 2 * B < env.h
    /\ NearRight /\ NearTop /\ env.y > 0
    /\ ret = Returned(TRUE, HTTOPRIGHT)

\* C5 as stated: a hit-test of a maximized window returns caption or client (no
\* hit) only, whether or not a hook is registered.
C5_MaximizedCaptionOrClient ==
    (HitDone /\ last.zBefore) => ret \in {Caption, NoHit}

\* C5 as amended: a hit-test of a maximized window returns the hook's definite
\* answer when the hook gives one, and otherwise caption or client (no hit) only,
\* so never a border or corner code computed from the pointer position.
C5_MaximizedNoBorderLogic ==
    (HitDone /\ last.zBefore) =>
        IF titlebar_hook.kind = "answer"
        THEN ret = Returned(titlebar_hook.ans[1], titlebar_hook.ans[2])
        ELSE ret \in {Caption, NoHit}

\* a maximized window was asked about a point inside its top-left band and
\* answered caption
C5_Witness ==
    /\ HitDone /\ last.zBefore /\ zoomed
    /\ NearLeft /\ NearTop /\ Inside
    /\ titlebar_hook.kind # "answer"
    /\ ret = Caption

\* C6: when a hit-test reaches the title-bar decision and the hook is absent,
\* raises any error or returns no opinion, the result is caption if the point's
\* vertical offset is below the fallback height, otherwise client (no hit).
C6_HookFailureIsNoOpinion ==
    (/\ HitDone
     /\ last.zBefore \/ (~NearLeft /\ ~NearRight /\ ~NearTop /\ ~NearBottom)
     /\ titlebar_hook.kind \in {"absent", "none", "raise"})
        => ret = IF env.y < TITLE_BAR_FALLBACK_HEIGHT THEN Caption ELSE NoHit

\* the last operation was a message given to nativeEvent as a native message
NativeDone == last.op = "nativeEvent"

\* C7: nativeEvent never raises past its boundary, and when a query of the
\* monitor, of the host window's geometry or minimum size or of the maximized
\* state, or the show-window call fails, it returns (False, 0).
C7_NeverRaises ==
    NativeDone =>
        /\ ret.raised = NoneS
        /\ last.fault.site \in {"MonitorFromWindow", "GetMonitorInfoW", "minimumSize",
                                 "geometry", "IsZoomed", "ShowWindow"}
              => ret = Returned(FALSE, 0)

\* C8: a button-up or double-click over the maximize button issues the
\* show-window directive opposite to the maximized state of that moment, leaves
\* the window in the opposite state, issues one corner trigger and returns
\* (True, 0); after two of them in a row the window is in the state it was in
\* before the first.
C8_DoubleToggleRestores ==
    IsToggle(last) =>
        /\ last.show = IF last.zBefore THEN SW_RESTORE ELSE SW_MAXIMIZE
        /\ zoomed = ~last.zBefore
        /\ last.triggers = 1
        /\ ret = Returned(TRUE, 0)
        /\ prev.kind = "toggle" => zoomed = prev.zBefore

\* two toggles in a row from a maximized window: maximized again
C8_Witness ==
    /\ IsToggle(last) /\ prev.kind = "toggle"
    /\ prev.zBefore /\ ~last.zBefore /\ zoomed

\* the last operation was a get-min-max-info message with a record to fill, for
\* which the window's monitor and its info were resolved and the minimum size
\* was given
MinMaxResolved ==
    /\ NativeDone /\ last.msg = WM_GETMINMAXINFO /\ last.fault = NoFault
    /\ last.arg.lParam # 0
    /\ hwnd \notin {NoneV, 0}
    /\ env.mon.handle # 0 /\ env.mon.infoOk

\* C9: such a message returns (True, 0) with max position = work-area origin
\* - monitor origin, max size = the work area's width and height, min-track size
\* = the window's minimum raised to the floor (200, 100), the other fields as
\* supplied; work area (10,10)-(1910,1070) on monitor (0,0)-(1920,1080) with
\* minimum (200,100) gives (10,10), (1900,1060) and (200,100).
C9_MinMaxFilled ==
    MinMaxResolved =>
        LET out == last.out
            work == env.mon.work
            full == env.mon.full
        IN  /\ ret = Returned(TRUE, 0)
            /\ out.ptMaxPosition[1] + full.left = work.left
            /\ out.ptMaxPosition[2] + full.top = work.top
            /\ out.ptMaxSize[1] + work.left = work.right
            /\ out.ptMaxSize[2] + work.top = work.bottom
            /\ out.ptMinTrackSize[1] >= 200 /\ out.ptMinTrackSize[1] >= env.minSize[1]
            /\ out.ptMinTrackSize[1] \in {200, env.minSize[1]}
            /\ out.ptMinTrackSize[2] >= 100 /\ out.ptMinTrackSize[2] >= env.minSize[2]
            /\ out.ptMinTrackSize[2] \in {100, env.minSize[2]}
            /\ out.ptReserved = last.arg.info.ptReserved
            /\ out.ptMaxTrackSize = last.arg.info.ptMaxTrackSize
            /\ (work = Rect(10, 10, 1910, 1070) /\ full = Rect(0, 0, 1920, 1080)
                  /\ env.minSize = <<200, 100>>)
                 => /\ out.ptMaxPosition = <<10, 10>>
                    /\ out.ptMaxSize = <<1900, 1060>>
                    /\ out.ptMinTrackSize = <<200, 100>>

\* the example of the specification was computed
C9_Witness ==
    /\ MinMaxResolved
    /\ env.mon.work = Rect(10, 10, 1910, 1070) /\ env.mon.full = Rect(0, 0, 1920, 1080)
    /\ env.minSize = <<200, 100>>
    /\ last.out.ptMaxPosition = <<10, 10>>
    /\ last.out.ptMaxSize = <<1900, 1060>>
    /\ last.out.ptMinTrackSize = <<200, 100>>

\* the last operation was a size, window-pos-changed, exit-size-move or
\* DPI-changed message
SizeMoveDone ==
    /\ NativeDone
    /\ last.msg \in {WM_SIZE, WM_WINDOWPOSCHANGED, WM_EXITSIZEMOVE, WM_DPICHANGED}

\* C10 as stated: such a message issues one corner trigger and returns
\* (False, 0), whatever the previously-installed handler returns.
C10_SizeMoveUnhandled ==
    SizeMoveDone => (last.triggers = 1 /\ ret = Returned(FALSE, 0))

\* C10 as amended: such a message issues one corner trigger, is passed to the
\* previously-installed handler once, and nativeEvent returns the pair that
\* handler returns.
C10_SizeMovePassedOn ==
    SizeMoveDone => (last.triggers = 1 /\ last.orig = 1 /\ ret = last.out)

\* a size message the previous handler answered (True, 1) was returned so
C10_Witness ==
    SizeMoveDone /\ last.triggers = 1 /\ ret = Returned(TRUE, 1)

\* C11: after cleanup() has returned, and as long as nothing else has been
\* called since (so that every pending callback was scheduled before cleanup),
\* no step applies the corners.
C11_NoApplyAfterCleanup ==
    [][(last.op = "cleanup" /\ last'.op = "cleanup")
          => (burst'.apps = burst.apps /\ last_corner_apply' = last_corner_apply)]_vars

\* C12 as stated: every cursor-set message whose low word is the maximize-button
\* code leaves the pointing-hand cursor installed and returns (True, 1) without
\* reaching the previously-installed handler.
C12_HandAlwaysInstalled ==
    IsCursorSave(last) =>
        (osCursor = IDC_HAND /\ ret = Returned(TRUE, 1) /\ last.orig = 0)

\* C12 as amended: such a message, when the hand cursor could be loaded, leaves
\* that cursor installed and returns (True, 1) without reaching the previous
\* handler; when loading gave no cursor, the active cursor stays, the message
\* goes to the previous handler once and its answer is returned.
C12_HandInstalledWhenLoaded ==
    IsCursorSave(last) =>
        IF last.arg.hcur # 0
        THEN osCursor = last.arg.hcur /\ ret = Returned(TRUE, 1) /\ last.orig = 0
        ELSE osCursor = last.arg.active /\ last.orig = 1 /\ ret = last.out

\* a cursor-set message with a mouse message in its high word and the
\* maximize-button code in its low word replaced another cursor by the hand
C12_Witness ==
    /\ IsCursorSave(last) /\ last.arg.lParam > 65535
    /\ last.arg.active # IDC_HAND
    /\ osCursor = IDC_HAND /\ ret = Returned(TRUE, 1) /\ last.orig = 0

\* the last operation was a get-min-max-info message
MinMaxDone == NativeDone /\ last.msg = WM_GETMINMAXINFO

\* the message could not be served: null parameter, no window handle, no
\* monitor resolved, or the monitor-info query failing (by its answer or by an
\* OSError or ValueError from one of the two monitor queries)
MinMaxNotServed ==
    \/ last.fault = NoFault
         /\ \/ last.arg.lParam = 0
            \/ hwnd \in {NoneV, 0}
            \/ env.mon.handle = 0
            \/ ~env.mon.infoOk
    \/ last.fault.site \in {"MonitorFromWindow", "GetMonitorInfoW"}
         /\ last.fault.exc \in {"OSError", "ValueError"}

\* C13: a get-min-max-info message that cannot be served returns (False, 0) and
\* leaves the record supplied by the system unmodified.
C13_NotServedLeavesRecord ==
    (MinMaxDone /\ MinMaxNotServed) =>
        (ret = Returned(FALSE, 0) /\ last.out = last.arg.info)

\* a message with a record to fill and a valid window, but no monitor info
C13_Witness ==
    /\ MinMaxDone /\ last.fault = NoFault
    /\ last.arg.lParam # 0 /\ hwnd = ValidHwnd
    /\ env.mon.handle # 0 /\ ~env.mon.infoOk
    /\ ret = Returned(FALSE, 0) /\ last.out = InfoSupplied

\* the message types nativeEvent has a branch for
RecognisedMessages ==
    {WM_NCPAINT, WM_NCACTIVATE, WM_SETCURSOR, WM_NCCALCSIZE, WM_NCLBUTTONDOWN,
     WM_NCLBUTTONUP, WM_NCLBUTTONDBLCLK, WM_GETMINMAXINFO, WM_NCHITTEST, WM_SIZE,
     WM_WINDOWPOSCHANGED, WM_EXITSIZEMOVE, WM_DPICHANGED}

\* the last operation was an event of another type tag, or a native message of
\* a type nativeEvent has no branch for
UnrecognisedDone ==
    \/ last.op = "nativeEvent-other-type"
    \/ NativeDone /\ last.msg \notin RecognisedMessages

\* C14: such an event is passed to the previously-installed handler once and
\* that handler's pair is returned unchanged, with no corner trigger and no
\* change of the maximized state.
C14_UnrecognisedPassedOn ==
    UnrecognisedDone =>
        /\ last.orig = 1 /\ ret = last.out
        /\ last.triggers = 0 /\ last.show = 0
        /\ zoomed = last.zBefore

\* a mouse-move message over a maximized window answered (True, 1) by the
\* previous handler came back so
C14_Witness ==
    /\ NativeDone /\ last.msg = WM_NCMOUSEMOVE
    /\ last.orig = 1 /\ ret = Returned(TRUE, 1) /\ last.triggers = 0
    /\ last.zBefore /\ zoomed

\* C15: when winId() gives no handle or zero, _post_init raises to its caller,
\* the replacement handler is not installed, and the style bits, the
\* non-client rendering policy, the corner preference, the clip region and the
\* blur are untouched and no corner callback is scheduled.
C15_SetupFailsClean ==
    (last.op = "_post_init" /\ last.arg.wid \in {NoneV, 0}) =>
        /\ ret.raised # NoneS
        /\ ~installed
        /\ style = WS_CAPTION /\ ncPolicy = NoneV
        /\ last.triggers = 0 /\ pending = <<>>
        /\ cornerPref = DWMWCP_DEFAULT /\ windowRgn = WholeWindow
        /\ ~blur

\* _post_init met a zero handle and raised RuntimeError
C15_Witness ==
    /\ last.op = "_post_init" /\ last.arg.wid = 0
    /\ ret = Raised("RuntimeError") /\ hwnd = 0 /\ ~installed

\* C16: a button-up or double-click over the maximize button toggles the
\* maximized state whatever came before it, a button-down elsewhere included;
\* a button-down over the maximize button returns (True, 0), leaves the
\* maximized state alone, schedules no corner callback and is not passed on.
C16_ToggleIgnoresHistory ==
    /\ IsToggle(last) => (zoomed # last.zBefore /\ ret = Returned(TRUE, 0))
    /\ IsMaxButtonDown(last) =>
          /\ ret = Returned(TRUE, 0)
          /\ zoomed = last.zBefore /\ last.show = 0
          /\ last.triggers = 0 /\ last.orig = 0

\* pressed down elsewhere, released over the maximize button: maximized
C16_Witness ==
    /\ IsToggle(last) /\ last.msg = WM_NCLBUTTONUP
    /\ prev.kind = "down-elsewhere"
    /\ ~last.zBefore /\ zoomed

\* C17: a cursor-set message over the maximize button saves the active cursor
\* only while none is saved; a cursor-set message elsewhere while a cursor is
\* saved makes the saved cursor the active one and clears the saved state
\* (leaves None or a null handle, which the code reads alike);
\* cleanup() while a cursor is saved makes the saved cursor the active one.
C17_SavedCursorHandedBack ==
    /\ (IsCursorSave(last) /\ last.arg.saved # NoneV)
          => original_cursor = last.arg.saved
    /\ (NativeDone /\ last.msg = WM_SETCURSOR /\ last.ht # HTMAXBUTTON
          /\ last.arg.saved # NoneV)
          => (osCursor = last.arg.saved /\ original_cursor \in {NoneV, 0})
    /\ (last.op = "cleanup" /\ original_cursor # NoneV)
          => osCursor = original_cursor

\* the corners have been applied to a window with a valid handle since the last
\* trigger, by a callback or by the application's own call, so the maximized
\* state is the one that application read
CornersJustApplied ==
    /\ burst.apps >= 1 \/ last.op = "apply_rounded_corners"
    /\ hwnd \notin {NoneV, 0}

\* C18: after an application the presentation matches the maximized state: when
\* maximized the clip region is the whole window and, with the native corner
\* preference, the preference is do-not-round; when restored the native
\* preference is round, and without it the clip region is a rounded rectangle
\* of the window's size with the radius 15 x scale, cut to an integer.
C18_CornersMatchState ==
    CornersJustApplied =>
        IF zoomed
        THEN windowRgn = WholeWindow /\ (is_windows_11 => cornerPref = DWMWCP_DONOTROUND)
        ELSE IF is_windows_11
        THEN cornerPref = DWMWCP_ROUND
        ELSE /\ windowRgn # WholeWindow
             /\ windowRgn[1] = env.w /\ windowRgn[2] = env.h
             /\ windowRgn[3] * env.dpr[2] <= 15 * env.dpr[1]
             /\ 15 * env.dpr[1] < (windowRgn[3] + 1) * env.dpr[2]

\* without the native preference a window restored after having been
\* maximized at 150 % scale got its rounded region back, radius 22
C18_Witness ==
    /\ CornersJustApplied /\ ~is_windows_11 /\ ~zoomed
    /\ last.op = "showNormal" /\ last.zBefore
    /\ env.dpr = <<3, 2>>
    /\ windowRgn = <<env.w, env.h, 22>>

\* C19: a region handle that was created is either taken over by the system
\* through SetWindowRgn or deleted by the controller: never both, never neither.
C19_RegionOwnedOrDeleted ==
    region.created => (region.transferred # region.deleted)

\* C20: every application of the corners by a debounce callback happens at
\* least 50 ms after the application before it.
C20_ApplicationsSpaced ==
    [][burst'.apps = burst.apps + 1
          => last_corner_apply' - last_corner_apply >= 50]_vars

\* the corner presentation is the one of the maximized state
PresentationMatches ==
    IF zoomed
    THEN windowRgn = WholeWindow /\ (is_windows_11 => cornerPref = DWMWCP_DONOTROUND)
    ELSE IF is_windows_11
    THEN cornerPref = DWMWCP_ROUND
    ELSE windowRgn = <<env.w, env.h, Scaled(ROUND_CORNER_RADIUS, env.dpr)>>

\* no callback is pending, the corners have been applied since the last
\* trigger, and the presentation is the one of the maximized state
CornersSettled ==
    installed => (pending = <<>> /\ burst.apps >= 1 /\ PresentationMatches)

\* C21: with the event loop running and no teardown, once the triggers have
\* stopped the corners are applied at or after the last trigger and the
\* presentation matches the final maximized state from then on.
C21_EventuallyMatches == <>[]CornersSettled

\* a burst of triggers ended with the window maximized; the callbacks of the
\* burst have all run, the last of them after the last trigger
C21_Witness ==
    /\ installed /\ pending = <<>>
    /\ burst.n >= 2 /\ burst.apps >= 2
    /\ zoomed /\ is_windows_11
    /\ windowRgn = WholeWindow /\ cornerPref = DWMWCP_DONOTROUND

\* C22: a step that ends a hit-test query leaves the saved cursor, the active
\* cursor, the pending callbacks and the timer, the time of the last
\* application, the window handle, the maximized state, the style and the
\* corner presentation as they were.
C22_HittestIsQueryOnly ==
    [][(last'.op = "nativeEvent" /\ last'.msg = WM_NCHITTEST
          /\ <<ret, last, prev>>' # <<ret, last, prev>>)
        => UNCHANGED <<original_cursor, osCursor, corner_timer, pending,
                       last_corner_apply, hwnd, installed, zoomed, style,
                       cornerPref, windowRgn>>]_vars

\* a maximized window with a cursor saved and a callback pending was asked and
\* answered caption
C22_Witness ==
    /\ HitDone /\ ret = Caption
    /\ zoomed /\ original_cursor = IDC_ARROW /\ pending # <<>>

ResizeCodes ==
    {HTLEFT, HTRIGHT, HTTOP, HTBOTTOM, HTTOPLEFT, HTTOPRIGHT, HTBOTTOMLEFT, HTBOTTOMRIGHT}

GotResizeCode == ret.handled /\ ret.result \in ResizeCodes

\* the B pixel columns and rows at each side of the W x H window
InLeftColumns == env.x < B
InRightColumns == env.x >= env.w - B
InTopRows == env.y < B
InBottomRows == env.y >= env.h - B

\* C23: on a restored window with B < W/2 and B < H/2 and no hook answering,
\* a point inside the window gets a resize code exactly when it lies in the B
\* pixel columns at the left or at the right or in the B pixel rows at the top
\* or at the bottom, and a corner's code exactly in the B x B box at that
\* corner.
C23_BandsAreBWide ==
    (HitDone /\ ~last.zBefore /\ Inside /\ 2 * B < env.w /\ 2 * B < env.h
       /\ titlebar_hook.kind # "answer") =>
        /\ GotResizeCode <=>
              (InLeftColumns \/ InRightColumns \/ InTopRows \/ InBottomRows)
        /\ ret = Returned(TRUE, HTTOPLEFT) <=> (InLeftColumns /\ InTopRows)
        /\ ret = Returned(TRUE, HTTOPRIGHT) <=> (InRightColumns /\ InTopRows)
        /\ ret = Returned(TRUE, HTBOTTOMLEFT) <=> (InLeftColumns /\ InBottomRows)
        /\ ret = Returned(TRUE, HTBOTTOMRIGHT) <=> (InRightColumns /\ InBottomRows)

\* the bit of mask m (a power of two) in a signed 32-bit integer, and its sign
\* bit
MaskBit(st, m) == (st \div m) % 2
SignOf(st) == IF st < 0 THEN 1 ELSE 0

CaptionMasks == {WS_CAPTION \div 3, 2 * (WS_CAPTION \div 3)}
OtherMasks == {2^k : k \in 0..30} \ (CaptionMasks \cup {WS_THICKFRAME})

\* C24: the step in which the frame is set up with a valid handle leaves the
\* style with the thick-frame bit set, both caption bits clear and every other
\* one of the 32 bits as it was before.
C24_StyleAfterSetup ==
    [][(~installed /\ installed') =>
          /\ MaskBit(style', WS_THICKFRAME) = 1
          /\ \A m \in CaptionMasks : MaskBit(style', m) = 0
          /\ \A m \in OtherMasks : MaskBit(style', m) = MaskBit(style, m)
          /\ SignOf(style') = SignOf(style)]_vars

\* a popup window's style (sign bit set) with other bits set went through the
\* setup
C24_Witness ==
    /\ installed /\ last.op = "_post_init"
    /\ style < 0 /\ MaskBit(style, 1) = 1 /\ MaskBit(style, 2^28) = 1
    /\ MaskBit(style, WS_THICKFRAME) = 1
    /\ \A m \in CaptionMasks : MaskBit(style, m) = 0

=============================================================================
